---- MODULE Spec2Model ----
(***************************************************************************)
(* AI-todo-app: the session-authenticated task endpoints of                *)
(* server/routes.ts, the task store behind them, and the GroqService       *)
(* wrapper (tag, insight and report generation with its fallback paths).   *)
(*                                                                         *)
(* Texts are sequences of tokens.  A token is one character (Tick for the  *)
(* backtick, "{", "}", ",", " ", "\n") or an atomic run of characters none *)
(* of which is one of those: "json" (the word after a fence), "a" (a       *)
(* word), "x" (prose that is no JSON), "null", "0", and the member tokens, *)
(* each standing for the member list of a JSON object (see Members).       *)
(***************************************************************************)
EXTENDS Integers, Sequences, FiniteSets, TLC

\* ------------------------------------------------------------------ bounds

\* Rows the store ever creates (serial ids 1..MaxTasks).
MaxTasks == 2
\* Pieces concatenated into one reply to the insight or report prompt.
MaxPieces == 3
\* Tokens in one reply to the tag prompt.
MaxTagLen == 7

\* --------------------------------------------------------- small utilities

Min(S) == CHOOSE m \in S : \A n \in S : m <= n
Max(S) == CHOOSE m \in S : \A n \in S : n <= m

RECURSIVE Concat(_)
Concat(ss) == IF ss = <<>> THEN <<>> ELSE Head(ss) \o Concat(Tail(ss))

SeqsUpTo(S, n) == UNION {[1..k -> S] : k \in 0..n}

\* ------------------------------------------------------- JavaScript values
\* A value is a record tagged by its type: t \in {"undefined", "null", "num",
\* "str", "arr", "obj"}.

Undefined == [t |-> "undefined"]
Null == [t |-> "null"]
Num(n) == [t |-> "num", n |-> n]
Str(s) == [t |-> "str", s |-> s]
Arr(a) == [t |-> "arr", a |-> a]
Obj(o) == [t |-> "obj", o |-> o]

\* v.k for a value that is neither null nor undefined.
Get(v, k) == IF v.t = "obj" /\ k \in DOMAIN v.o THEN v.o[k] ELSE Undefined
\* v.k throws a TypeError.
Nullish(v) == v.t \in {"null", "undefined"}
Truthy(v) ==
    CASE v.t \in {"null", "undefined"} -> FALSE
      [] v.t = "num" -> v.n # 0
      [] v.t = "str" -> v.s # ""
      [] OTHER -> TRUE
TypeofObject(v) == v.t \in {"obj", "arr", "null"}
TypeofString(v) == v.t = "str"
IsArray(v) == v.t = "arr"

\* ------------------------------------------------------------------- texts

\* The backtick character.
Tick == "tick"

Whitespace == {" ", "\n"}

IsAt(s, p, i) == i + Len(p) - 1 <= Len(s) /\ SubSeq(s, i, i + Len(p) - 1) = p
Occ(s, p) == {i \in 1..Len(s) : IsAt(s, p, i)}

RECURSIVE trimStart(_)
trimStart(s) ==
    IF s # <<>> /\ Head(s) \in Whitespace THEN trimStart(Tail(s)) ELSE s
RECURSIVE trimEnd(_)
trimEnd(s) ==
    IF s # <<>> /\ s[Len(s)] \in Whitespace
    THEN trimEnd(SubSeq(s, 1, Len(s) - 1)) ELSE s
trim(s) == trimEnd(trimStart(s))

\* String.prototype.split(','): the pieces between the commas, empty ones kept.
RECURSIVE split(_)
split(s) ==
    LET commas == {i \in 1..Len(s) : s[i] = ","}
    IN IF commas = {} THEN <<s>>
       ELSE LET i == Min(commas)
            IN <<SubSeq(s, 1, i - 1)>> \o split(SubSeq(s, i + 1, Len(s)))

\* A RegExp match: found, the whole match, and capture group 1 when the
\* pattern has one.
NoMatch == [found |-> FALSE, whole |-> <<>>, hasGroup |-> FALSE, group |-> <<>>]

FenceOpen == <<Tick, Tick, Tick, "json", "\n">>
FenceClose == <<"\n", Tick, Tick, Tick>>

\* content.match(/```json\n([\s\S]*?)\n```/)
matchFence(s) ==
    LET closes(i) == {j \in Occ(s, FenceClose) : j >= i + Len(FenceOpen)}
        starts == {i \in Occ(s, FenceOpen) : closes(i) # {}}
    IN IF starts = {} THEN NoMatch
       ELSE LET i == Min(starts)
                j == Min(closes(i))
            IN [found |-> TRUE,
                whole |-> SubSeq(s, i, j + Len(FenceClose) - 1),
                hasGroup |-> TRUE,
                group |-> SubSeq(s, i + Len(FenceOpen), j - 1)]

\* content.match(/`([\s\S]*?)`/)
matchTick(s) ==
    LET ticks == {i \in 1..Len(s) : s[i] = Tick}
    IN IF Cardinality(ticks) < 2 THEN NoMatch
       ELSE LET i == Min(ticks)
                j == Min(ticks \ {i})
            IN [found |-> TRUE, whole |-> SubSeq(s, i, j),
                hasGroup |-> TRUE, group |-> SubSeq(s, i + 1, j - 1)]

\* content.match(/{[\s\S]*}/)
matchBrace(s) ==
    LET closes == {j \in 1..Len(s) : s[j] = "}"}
        opens == {i \in 1..Len(s) : s[i] = "{" /\ \E j \in closes : j > i}
    IN IF opens = {} THEN NoMatch
       ELSE [found |-> TRUE, whole |-> SubSeq(s, Min(opens), Max(closes)),
             hasGroup |-> FALSE, group |-> <<>>]

\* The three patterns with the bare braces tried first.
jsonMatchBraceFirst(s) ==
    IF matchBrace(s).found THEN matchBrace(s)
    ELSE IF matchFence(s).found THEN matchFence(s)
    ELSE matchTick(s)

\* a || b || c over the three patterns
jsonMatch(s) ==
    IF matchFence(s).found THEN matchFence(s)
    ELSE IF matchTick(s).found THEN matchTick(s)
    ELSE matchBrace(s)

\* jsonMatch[1] || jsonMatch[0]: an absent or empty group is falsy.
jsonString(m) == IF m.hasGroup /\ m.group # <<>> THEN m.group ELSE m.whole

\* ----------------------------------------------------------------- JSON
\* The member tokens and the object JSON.parse builds from "{" member "}".

SomeGroup == Obj([name |-> Str("Work"), tasks |-> Arr(<<Str("a")>>)])

Members ==
    [ins |-> [taskGroups |-> Arr(<<SomeGroup>>),
              recommendations |-> Arr(<<Str("plan")>>),
              completionRate |-> Str("40%")],
     insNullGroup |-> [taskGroups |-> Arr(<<Null, SomeGroup>>),
                       recommendations |-> Arr(<<>>),
                       completionRate |-> Str("40%")],
     insBadGroup |-> [taskGroups |-> Arr(<<Obj([name |-> Num(1)]), Null>>),
                      recommendations |-> Arr(<<>>),
                      completionRate |-> Str("40%")],
     insNoRate |-> [taskGroups |-> Arr(<<>>),
                    recommendations |-> Arr(<<>>),
                    completionRate |-> Num(40)],
     rep |-> [executiveSummary |->
                  Obj([summary |-> Str("ok"), metrics |-> Arr(<<Str("m")>>)]),
              taskAnalysis |-> Str("ta"),
              productivityMetrics |-> Str("pm"),
              workStyleAnalysis |-> Str("ws"),
              recommendations |-> Arr(<<Str("r")>>)],
     repNullSummary |-> [executiveSummary |-> Null,
                         taskAnalysis |-> Str("ta"),
                         productivityMetrics |-> Str("pm"),
                         workStyleAnalysis |-> Str("ws"),
                         recommendations |-> Arr(<<>>)],
     repNoRecs |-> [executiveSummary |->
                        Obj([summary |-> Str("ok"), metrics |-> Arr(<<>>)]),
                    taskAnalysis |-> Str("ta"),
                    productivityMetrics |-> Str("pm"),
                    workStyleAnalysis |-> Str("ws")]]

MemberTokens == DOMAIN Members
NoMembers == [k \in {} |-> Null]

\* JSON.parse(text): whitespace between tokens is insignificant; the texts
\* that are one JSON value are {}, {members}, null and 0; everything else is a
\* SyntaxError.
JSONparse(s) ==
    LET u == SelectSeq(s, LAMBDA c : c \notin Whitespace)
    IN CASE Len(u) = 3 /\ u[1] = "{" /\ u[2] \in MemberTokens /\ u[3] = "}" ->
                [threw |-> FALSE, val |-> Obj(Members[u[2]])]
         [] u = <<"{", "}">> -> [threw |-> FALSE, val |-> Obj(NoMembers)]
         [] u = <<"null">> -> [threw |-> FALSE, val |-> Null]
         [] u = <<"0">> -> [threw |-> FALSE, val |-> Num(0)]
         [] OTHER -> [threw |-> TRUE, val |-> Undefined]

\* ------------------------------------------------------------ GroqService
\* A method's outcome: it returned val, or it threw.

Returned(v) == [threw |-> FALSE, val |-> v]
Threw == [threw |-> TRUE, val |-> Undefined]

\* What this.model.invoke did: it threw (network, API error), or it resolved
\* with response.content = content.
InvokeFailed == [failed |-> TRUE, content |-> <<>>]
InvokeText(s) == [failed |-> FALSE, content |-> s]

\* taskGroups.every(group => typeof group.name === 'string' &&
\*                           Array.isArray(group.tasks)):
\* "true", "false", or "throws" (a null group, reached before any failing one).
RECURSIVE everyGroup(_)
everyGroup(gs) ==
    IF gs = <<>> THEN "true"
    ELSE LET g == Head(gs)
         IN IF Nullish(g) THEN "throws"
            ELSE IF TypeofString(Get(g, "name")) /\ IsArray(Get(g, "tasks"))
                 THEN everyGroup(Tail(gs))
                 ELSE "false"

validateInsightsStructure(insights) ==
    IF ~Truthy(insights) THEN "false"
    ELSE IF ~IsArray(Get(insights, "taskGroups")) THEN "false"
    ELSE LET e == everyGroup(Get(insights, "taskGroups").a)
         IN IF e # "true" THEN e
            ELSE IF IsArray(Get(insights, "recommendations"))
                    /\ TypeofString(Get(insights, "completionRate"))
                 THEN "true" ELSE "false"

\* The try block of validateReportStructure throws on a null executiveSummary
\* (typeof null is 'object'); its catch returns false.
validateReportStructure(report) ==
    IF ~Truthy(report) THEN "false"
    ELSE LET es == Get(report, "executiveSummary")
         IN IF ~TypeofObject(es) THEN "false"
            ELSE IF Nullish(es) THEN "false"
            ELSE IF /\ TypeofString(Get(es, "summary"))
                    /\ IsArray(Get(es, "metrics"))
                    /\ TypeofString(Get(report, "taskAnalysis"))
                    /\ TypeofString(Get(report, "productivityMetrics"))
                    /\ TypeofString(Get(report, "workStyleAnalysis"))
                    /\ IsArray(Get(report, "recommendations"))
                 THEN "true" ELSE "false"

\* tasks.filter(t => t.completed).length
RECURSIVE completedCount(_)
completedCount(ts) ==
    IF ts = <<>> THEN 0
    ELSE (IF Head(ts).completed THEN 1 ELSE 0) + completedCount(Tail(ts))

RECURSIVE highCount(_)
highCount(ts) ==
    IF ts = <<>> THEN 0
    ELSE (IF Head(ts).priority = "high" THEN 1 ELSE 0) + highCount(Tail(ts))

\* Math.floor in the place of Math.round.
MathFloor(num, den) == num \div den

\* Math.round(x) for x = num / den >= 0: halves round up.
MathRound(num, den) == (2 * num + den) \div (2 * den)

completionRate(ts) ==
    IF Len(ts) > 0 THEN MathRound(completedCount(ts) * 100, Len(ts)) ELSE 0

getFallbackInsights(ts) ==
    Obj([taskGroups |->
             Arr(<<Obj([name |-> Str("All Tasks"),
                        tasks |-> Arr([i \in 1..Len(ts) |-> Str(ts[i].title)])])>>),
         recommendations |->
             Arr(<<Str("Focus on completing high-priority tasks first"),
                   Str("Review and update task priorities regularly")>>),
         completionRate |-> Str(ToString(completionRate(ts)) \o "%")])

getFallbackReport(ts) ==
    Obj([executiveSummary |->
             Obj([summary |->
                      Str("Task Management Overview (Generated from fallback)"),
                  metrics |->
                      Arr(<<Str("Total Tasks: " \o ToString(Len(ts))),
                            Str("Completed Tasks: "
                                \o ToString(completedCount(ts))),
                            Str("Completion Rate: "
                                \o ToString(completionRate(ts)) \o "%"),
                            Str("High Priority Tasks: "
                                \o ToString(highCount(ts)))>>)]),
         taskAnalysis |-> Str("A detailed task analysis could not be generated at this time. Please try again later."),
         productivityMetrics |->
             Str("Current completion rate is " \o ToString(completionRate(ts))
                 \o "%. Task metrics are being calculated."),
         workStyleAnalysis |-> Str("Work style analysis is temporarily unavailable. Please try again later."),
         recommendations |->
             Arr(<<Str("Consider reviewing and updating task priorities"),
                   Str("Regular task list maintenance is recommended"),
                   Str("Set realistic deadlines for better task management")>>)])

\* The object generateTaskInsights returns for an empty task list.
EmptyInsights ==
    Obj([taskGroups |-> Arr(<<>>),
         recommendations |->
             Arr(<<Str("Start by adding some tasks to get AI-powered insights")>>),
         completionRate |-> Str("0%")])

\* Lines 188-206, the inner try block of generateTaskInsights: extract, parse,
\* validate; any failure is a throw.
insightsParse(content) ==
    LET m == jsonMatch(content)
    IN IF ~m.found THEN Threw
       ELSE LET p == JSONparse(jsonString(m))
            IN IF p.threw THEN Threw
               ELSE IF validateInsightsStructure(p.val) = "true"
                    THEN Returned(p.val)
                    ELSE Threw

\* Whether generateTaskInsights reaches this.model.invoke.
insightsInvokes(ts) == ts # <<>>

\* generateTaskInsights returning the parsed reply with no validation of it.
generateTaskInsightsUnvalidated(ts, reply) ==
    IF ~insightsInvokes(ts) THEN Returned(EmptyInsights)
    ELSE IF reply.failed THEN Returned(getFallbackInsights(ts))
    ELSE LET m == jsonMatch(reply.content)
             p == JSONparse(jsonString(m))
         IN IF ~m.found \/ p.threw THEN Returned(getFallbackInsights(ts))
            ELSE Returned(p.val)

generateTaskInsights(ts, reply) ==
    IF ~insightsInvokes(ts) THEN Returned(EmptyInsights)
    ELSE IF reply.failed THEN Returned(getFallbackInsights(ts))
    ELSE LET inner == insightsParse(reply.content)
         IN IF inner.threw THEN Returned(getFallbackInsights(ts)) ELSE inner

\* Lines 83-109, the inner try/catch of generateReport: its catch rethrows.
reportParse(content) ==
    LET m == jsonMatch(content)
    IN IF ~m.found THEN Threw
       ELSE LET p == JSONparse(trim(jsonString(m)))
            IN IF p.threw THEN Threw
               ELSE IF validateReportStructure(p.val) = "true"
                    THEN Returned(p.val)
                    ELSE Threw

\* generateReport testing !tasks alone: an empty array goes on to the model.
reportInvokesUnlessNull(ts) == TRUE

\* Whether generateReport reaches this.model.invoke.
reportInvokes(ts) == ts # <<>>

\* insights and user only enter the prompt.
generateReport(ts, insights, reply) ==
    IF ~reportInvokes(ts) THEN Returned(getFallbackReport(ts))
    ELSE IF reply.failed THEN Returned(getFallbackReport(ts))
    ELSE LET inner == reportParse(reply.content)
         IN IF inner.threw THEN Returned(getFallbackReport(ts)) ELSE inner

\* .slice(0, n)
slice(s, n) == SubSeq(s, 1, IF Len(s) < n THEN Len(s) ELSE n)

MaxTags == 3
DefaultTags == <<(<<"task">>)>>

\* The tag pipeline with its .slice(0, 3) left out.
tagsOfUnsliced(content) ==
    LET pieces == split(content)
        trimmed == [i \in 1..Len(pieces) |-> trim(pieces[i])]
    IN SelectSeq(trimmed,
                 LAMBDA tag : Len(tag) > 0
                              /\ \A i \in 1..Len(tag) : tag[i] # "\n")

\* The tag pipeline whose filter keeps the tags that hold a newline.
tagsOfKeepingNewlines(content) ==
    LET pieces == split(content)
        trimmed == [i \in 1..Len(pieces) |-> trim(pieces[i])]
    IN slice(SelectSeq(trimmed, LAMBDA tag : Len(tag) > 0), MaxTags)

\* content.split(',').map(trim).filter(nonempty, no newline).slice(0, 3)
tagsOf(content) ==
    LET pieces == split(content)
        trimmed == [i \in 1..Len(pieces) |-> trim(pieces[i])]
        kept == SelectSeq(trimmed,
                          LAMBDA tag : Len(tag) > 0
                                       /\ \A i \in 1..Len(tag) : tag[i] # "\n")
    IN slice(kept, MaxTags)

\* title and description only enter the prompt.
generateTaskTags(title, description, reply) ==
    IF reply.failed THEN Returned(DefaultTags)
    ELSE LET tags == tagsOf(reply.content)
         IN Returned(IF Len(tags) > 0 THEN tags ELSE DefaultTags)

\* ------------------------------------------------------------------ schema

Users == {"alice", "bob"}
\* req.user of a request with no valid session.
Anonymous == "anonymous"
Sessions == Users \cup {Anonymous}

Priorities == {"high", "medium", "low"}

\* A row of the tasks table.
Row(id, userId, title, description, priority, dueDate, completed, aiTags) ==
    [id |-> id, userId |-> userId, title |-> title,
     description |-> description, priority |-> priority, dueDate |-> dueDate,
     completed |-> completed, aiTags |-> aiTags]

Has(body, k) == k \in DOMAIN body /\ body[k].t # "undefined"

\* The insert schema with description defaulted to the empty string.
insertTaskSchemaParseDefaulted(body) ==
    IF /\ Has(body, "title") /\ body.title.t = "str"
       /\ (Has(body, "description") => body.description.t \in {"str", "null"})
       /\ Has(body, "priority") /\ body.priority.t = "str"
       /\ body.priority.s \in Priorities
       /\ (Has(body, "dueDate") => body.dueDate.t \in {"str", "null"})
    THEN Returned([title |-> body.title.s,
                   description |-> IF Has(body, "description")
                                   THEN body.description ELSE Str(""),
                   priority |-> body.priority.s,
                   dueDate |-> Undefined])
    ELSE Threw

\* insertTaskSchema.parse(req.body): title a string; description a string,
\* null or absent; priority one of the enum; dueDate a string (made a Date),
\* null or absent.  Unknown keys are stripped.  A ZodError is a throw.
insertTaskSchemaParse(body) ==
    IF /\ Has(body, "title") /\ body.title.t = "str"
       /\ (Has(body, "description") => body.description.t \in {"str", "null"})
       /\ Has(body, "priority") /\ body.priority.t = "str"
       /\ body.priority.s \in Priorities
       /\ (Has(body, "dueDate") => body.dueDate.t \in {"str", "null"})
    THEN Returned([title |-> body.title.s,
                   description |-> IF Has(body, "description")
                                   THEN body.description ELSE Undefined,
                   priority |-> body.priority.s,
                   dueDate |-> IF Has(body, "dueDate") /\ body.dueDate.t = "str"
                               THEN [t |-> "date", s |-> body.dueDate.s]
                               ELSE IF Has(body, "dueDate") THEN Null
                               ELSE Undefined])
    ELSE Threw

\* ----------------------------------------------------------------- storage
\* The store is the tasks table, its rows in insertion order.

\* An undefined column value is stored as NULL.
Column(v) == IF v.t = "undefined" THEN Null ELSE v

getTasksByUserId(store, userId) ==
    SelectSeq(store, LAMBDA t : t.userId = userId)

\* createTask({...validatedData, userId, aiTags}) with the serial id: the row.
createTask(id, insert) ==
    Row(id, insert.userId, insert.title, Column(insert.description),
        insert.priority, Column(insert.dueDate), FALSE, insert.aiTags)

Exists(store, id) == \E i \in 1..Len(store) : store[i].id = id
RowOf(store, id) == store[CHOOSE i \in 1..Len(store) : store[i].id = id]

\* updateTask(id, updates): the columns named in updates are set on the row
\* with that id.
Updated(row, updates) ==
    [k \in DOMAIN row |-> IF k \in DOMAIN updates THEN updates[k] ELSE row[k]]
updateTask(store, id, updates) ==
    [i \in 1..Len(store) |->
        IF store[i].id = id THEN Updated(store[i], updates) ELSE store[i]]

deleteTask(store, id) == SelectSeq(store, LAMBDA t : t.id # id)

\* parseInt(req.params.id) over the ids a client sends.
IdParams == 1..(MaxTasks + 1)

\* ---------------------------------------------------------------- requests

Bool(b) == [t |-> "bool", b |-> b]

\* The bodies clients send to POST /api/tasks: valid ones (the last with
\* fields outside the insert schema), then malformed ones: no title, a
\* priority outside the enum, a title of the wrong type.
ValidPostBodies ==
    {[title |-> Str("a"), priority |-> Str("high")],
     [title |-> Str("b"), description |-> Str("d"), priority |-> Str("low")],
     [title |-> Str("b"), description |-> Str("d"), priority |-> Str("low"),
      id |-> Num(1), userId |-> Str("bob"), completed |-> Bool(TRUE),
      aiTags |-> Arr(<<Str("x"), Str("x"), Str("x"), Str("x")>>)]}
MalformedPostBodies ==
    {[priority |-> Str("high")],
     [title |-> Str("a"), priority |-> Str("urgent")],
     [title |-> Num(1), priority |-> Str("low")]}
PostBodies == ValidPostBodies \cup MalformedPostBodies

\* The body clients send to PATCH /api/tasks/:id: the task is completed.
PatchBodies == {[completed |-> TRUE]}

\* What the model replies to the tag prompt and to the insight and report
\* prompts, in the requests of the HTTP specification.
TagReplies ==
    {InvokeFailed, InvokeText(<<>>),
     InvokeText(<<"a", ",", "a", ",", " ", "a", ",", "a">>)}
JsonReplies ==
    {InvokeFailed, InvokeText(<<"x">>), InvokeText(<<"{", "ins", "}">>),
     InvokeText(<<"{", "rep", "}">>),
     InvokeText(<<Tick, "{", "insNullGroup", "}", Tick>>)}

Reqs == {"r1"}

NoBody == [k \in {} |-> Null]
NoResp == [t |-> "none"]
\* res.json(rows), res.json(row), res.json(value); sendStatus has no payload.
RowsResp(rows) == [t |-> "rows", rows |-> rows]
RowResp(row) == [t |-> "row", row |-> row]
Message(m) == Obj([message |-> Str(m)])

VARIABLES
    tasks,      \* the tasks table
    nextId,     \* the serial of tasks.id
    reqs,       \* the handler invocations, one per slot
    svc         \* a direct invocation of a GroqService method

vars == <<tasks, nextId, reqs, svc>>

\* pc: "idle", then where the handler awaits ("tags", "insights",
\* "reportInsights", "reportReport"), then "done" once it has ended.
\* status 0: the handler ended and no response was written.
\* reply: what this.model.invoke did for the tag prompt or the insight prompt
\* of the two insights handlers, once calls = 1.
Idle ==
    [pc |-> "idle", kind |-> "none", user |-> Anonymous, id |-> 0,
     body |-> NoBody, data |-> NoBody, snapshot |-> <<>>,
     insights |-> Undefined, status |-> 0, resp |-> NoResp,
     reads |-> 0, writes |-> 0, calls |-> 0, reply |-> InvokeFailed]

\* reply is what this.model.invoke did, once calls = 1.
SvcIdle ==
    [pc |-> "idle", op |-> "none", tasks |-> <<>>, calls |-> 0,
     reply |-> InvokeFailed, result |-> Returned(Undefined)]

Init ==
    /\ tasks = <<>>
    /\ nextId = 1
    /\ reqs = [r \in Reqs |-> Idle]
    /\ svc = SvcIdle

\* A slot takes the next request once its last one has ended.
Free(r) == reqs[r].pc \in {"idle", "done"}

Arrived(kind, user) == [Idle EXCEPT !.kind = kind, !.user = user]

\* req.isAuthenticated()
isAuthenticated(req) == req.user # Anonymous

\* res.sendStatus(401)
Unauthorized(req) == [req EXCEPT !.pc = "done", !.status = 401]

\* An async handler that throws rejects with nothing awaiting it: the
\* response is never written (0), or the framework's error handling answers
\* 500.
UnhandledStatuses == {0, 500}

\* GET /api/tasks
GetTasks(r) ==
    /\ Free(r)
    /\ \E user \in Sessions :
        LET req == Arrived("GET /api/tasks", user)
        IN reqs' = [reqs EXCEPT ![r] =
               IF ~isAuthenticated(req) THEN Unauthorized(req)
               ELSE [req EXCEPT !.pc = "done", !.status = 200, !.reads = 1,
                                !.resp = RowsResp(getTasksByUserId(tasks, user))]]
    /\ UNCHANGED <<tasks, nextId, svc>>

\* POST /api/tasks up to the await of generateTaskTags
PostTask(r) ==
    /\ Free(r)
    /\ nextId <= MaxTasks
    /\ \E user \in Sessions, body \in PostBodies :
        LET req == [Arrived("POST /api/tasks", user) EXCEPT !.body = body]
            validatedData == insertTaskSchemaParse(body)
        IN IF ~isAuthenticated(req)
           THEN reqs' = [reqs EXCEPT ![r] = Unauthorized(req)]
           ELSE IF validatedData.threw
           THEN \E st \in UnhandledStatuses :
                    reqs' = [reqs EXCEPT ![r] =
                                 [req EXCEPT !.pc = "done", !.status = st]]
           ELSE reqs' = [reqs EXCEPT ![r] =
                            [req EXCEPT !.pc = "tags",
                                        !.data = validatedData.val]]
    /\ UNCHANGED <<tasks, nextId, svc>>

\* POST /api/tasks ending with 500 and no row when the tag call failed.
PostTaskTagsUnabsorbed(r) ==
    /\ reqs[r].pc = "tags"
    /\ \E reply \in TagReplies :
        LET req == reqs[r]
            aiTags == generateTaskTags(req.data.title, "", reply)
            task == createTask(nextId,
                               [title |-> req.data.title,
                                description |-> req.data.description,
                                priority |-> req.data.priority,
                                dueDate |-> req.data.dueDate,
                                userId |-> req.user,
                                aiTags |-> aiTags.val])
        IN IF reply.failed
           THEN /\ UNCHANGED <<tasks, nextId>>
                /\ reqs' = [reqs EXCEPT ![r] =
                       [req EXCEPT !.pc = "done", !.status = 500,
                                   !.calls = @ + 1, !.reply = reply]]
           ELSE /\ tasks' = Append(tasks, task)
                /\ nextId' = nextId + 1
                /\ reqs' = [reqs EXCEPT ![r] =
                       [req EXCEPT !.pc = "done", !.status = 201,
                                   !.calls = @ + 1, !.reply = reply,
                                   !.writes = @ + 1, !.resp = RowResp(task)]]
    /\ UNCHANGED svc

\* POST /api/tasks with the body spread after userId and aiTags: the body's
\* own userId, when it has one, is what is stored.
PostTaskTagsBodyLast(r) ==
    /\ reqs[r].pc = "tags"
    /\ \E reply \in TagReplies :
        LET req == reqs[r]
            aiTags == generateTaskTags(req.data.title, "", reply)
            task == createTask(nextId,
                               [title |-> req.data.title,
                                description |-> req.data.description,
                                priority |-> req.data.priority,
                                dueDate |-> req.data.dueDate,
                                userId |-> IF Has(req.body, "userId")
                                           THEN req.body.userId.s ELSE req.user,
                                aiTags |-> aiTags.val])
        IN /\ tasks' = Append(tasks, task)
           /\ nextId' = nextId + 1
           /\ reqs' = [reqs EXCEPT ![r] =
                  [req EXCEPT !.pc = "done", !.status = 201, !.calls = @ + 1,
                              !.reply = reply,
                              !.writes = @ + 1, !.resp = RowResp(task)]]
    /\ UNCHANGED svc

\* POST /api/tasks from the model's reply on: the tags, createTask, 201
PostTaskTags(r) ==
    /\ reqs[r].pc = "tags"
    /\ \E reply \in TagReplies :
        LET req == reqs[r]
            aiTags == generateTaskTags(req.data.title,
                                       IF Truthy(req.data.description)
                                       THEN req.data.description.s ELSE "",
                                       reply)
            task == createTask(nextId,
                               [title |-> req.data.title,
                                description |-> req.data.description,
                                priority |-> req.data.priority,
                                dueDate |-> req.data.dueDate,
                                userId |-> req.user,
                                aiTags |-> aiTags.val])
        IN /\ tasks' = Append(tasks, task)
           /\ nextId' = nextId + 1
           /\ reqs' = [reqs EXCEPT ![r] =
                  [req EXCEPT !.pc = "done", !.status = 201, !.calls = @ + 1,
                              !.reply = reply,
                              !.writes = @ + 1, !.resp = RowResp(task)]]
    /\ UNCHANGED svc

\* PATCH /api/tasks/:id answering res.json(task) whatever updateTask gave.
PatchTaskNoNotFound(r) ==
    /\ Free(r)
    /\ \E user \in Sessions, id \in IdParams, body \in PatchBodies :
        LET req == [Arrived("PATCH /api/tasks/:id", user)
                        EXCEPT !.id = id, !.body = body]
            store == updateTask(tasks, id, body)
        IN IF ~isAuthenticated(req)
           THEN /\ reqs' = [reqs EXCEPT ![r] = Unauthorized(req)]
                /\ tasks' = tasks
           ELSE /\ reqs' = [reqs EXCEPT ![r] =
                       [req EXCEPT !.pc = "done", !.status = 200, !.writes = 1,
                                   !.resp = IF Exists(store, id)
                                            THEN RowResp(RowOf(store, id))
                                            ELSE NoResp]]
                /\ tasks' = store
    /\ UNCHANGED <<nextId, svc>>

\* PATCH /api/tasks/:id
PatchTask(r) ==
    /\ Free(r)
    /\ \E user \in Sessions, id \in IdParams, body \in PatchBodies :
        LET req == [Arrived("PATCH /api/tasks/:id", user)
                        EXCEPT !.id = id, !.body = body]
            store == updateTask(tasks, id, body)
        IN IF ~isAuthenticated(req)
           THEN /\ reqs' = [reqs EXCEPT ![r] = Unauthorized(req)]
                /\ tasks' = tasks
           ELSE IF ~Exists(tasks, id)
           THEN /\ reqs' = [reqs EXCEPT ![r] =
                       [req EXCEPT !.pc = "done", !.status = 404, !.writes = 1]]
                /\ tasks' = store
           ELSE /\ reqs' = [reqs EXCEPT ![r] =
                       [req EXCEPT !.pc = "done", !.status = 200, !.writes = 1,
                                   !.resp = RowResp(RowOf(store, id))]]
                /\ tasks' = store
    /\ UNCHANGED <<nextId, svc>>

\* DELETE /api/tasks/:id answering 404 for an id that is not stored.
DeleteTaskNotFound(r) ==
    /\ Free(r)
    /\ \E user \in Sessions, id \in IdParams :
        LET req == [Arrived("DELETE /api/tasks/:id", user) EXCEPT !.id = id]
        IN IF ~isAuthenticated(req)
           THEN /\ reqs' = [reqs EXCEPT ![r] = Unauthorized(req)]
                /\ tasks' = tasks
           ELSE /\ reqs' = [reqs EXCEPT ![r] =
                       [req EXCEPT !.pc = "done", !.writes = 1,
                                   !.status = IF Exists(tasks, id)
                                              THEN 204 ELSE 404]]
                /\ tasks' = deleteTask(tasks, id)
    /\ UNCHANGED <<nextId, svc>>

\* DELETE /api/tasks/:id with its session check left out.
DeleteTaskNoSessionCheck(r) ==
    /\ Free(r)
    /\ \E user \in Sessions, id \in IdParams :
        LET req == [Arrived("DELETE /api/tasks/:id", user) EXCEPT !.id = id]
        IN /\ reqs' = [reqs EXCEPT ![r] =
                  [req EXCEPT !.pc = "done", !.status = 204, !.writes = 1]]
           /\ tasks' = deleteTask(tasks, id)
    /\ UNCHANGED <<nextId, svc>>

\* DELETE /api/tasks/:id
DeleteTask(r) ==
    /\ Free(r)
    /\ \E user \in Sessions, id \in IdParams :
        LET req == [Arrived("DELETE /api/tasks/:id", user) EXCEPT !.id = id]
        IN IF ~isAuthenticated(req)
           THEN /\ reqs' = [reqs EXCEPT ![r] = Unauthorized(req)]
                /\ tasks' = tasks
           ELSE /\ reqs' = [reqs EXCEPT ![r] =
                       [req EXCEPT !.pc = "done", !.status = 204, !.writes = 1]]
                /\ tasks' = deleteTask(tasks, id)
    /\ UNCHANGED <<nextId, svc>>

\* The end of a handler that awaited generateTaskInsights and answers with
\* res.json(insights); a throw is unhandled.
JsonOrUnhandled(req, outcome, st) ==
    IF outcome.threw THEN [req EXCEPT !.pc = "done", !.status = st]
    ELSE [req EXCEPT !.pc = "done", !.status = 200, !.resp = outcome.val]

\* GET /api/insights up to the await of this.model.invoke
GetInsights(r) ==
    /\ Free(r)
    /\ \E user \in Sessions :
        LET req == Arrived("GET /api/insights", user)
            ts == getTasksByUserId(tasks, user)
            read == [req EXCEPT !.reads = 1, !.snapshot = ts]
        IN reqs' \in
               {[reqs EXCEPT ![r] =
                    IF ~isAuthenticated(req) THEN Unauthorized(req)
                    ELSE IF insightsInvokes(ts)
                    THEN [read EXCEPT !.pc = "insights"]
                    ELSE JsonOrUnhandled(read,
                             generateTaskInsights(ts, InvokeFailed), st)] :
                   st \in UnhandledStatuses}
    /\ UNCHANGED <<tasks, nextId, svc>>

\* GET /api/insights from the model's reply on
GetInsightsReply(r) ==
    /\ reqs[r].pc = "insights"
    /\ reqs[r].kind = "GET /api/insights"
    /\ \E reply \in JsonReplies, st \in UnhandledStatuses :
        reqs' = [reqs EXCEPT ![r] =
            JsonOrUnhandled([@ EXCEPT !.calls = @ + 1, !.reply = reply],
                            generateTaskInsights(reqs[r].snapshot, reply), st)]
    /\ UNCHANGED <<tasks, nextId, svc>>

\* POST /api/insights/refresh up to the await of this.model.invoke
RefreshInsights(r) ==
    /\ Free(r)
    /\ \E user \in Sessions :
        LET req == Arrived("POST /api/insights/refresh", user)
            ts == getTasksByUserId(tasks, user)
            read == [req EXCEPT !.reads = 1, !.snapshot = ts]
        IN reqs' \in
               {[reqs EXCEPT ![r] =
                    IF ~isAuthenticated(req) THEN Unauthorized(req)
                    ELSE IF insightsInvokes(ts)
                    THEN [read EXCEPT !.pc = "insights"]
                    ELSE JsonOrUnhandled(read,
                             generateTaskInsights(ts, InvokeFailed), st)] :
                   st \in UnhandledStatuses}
    /\ UNCHANGED <<tasks, nextId, svc>>

\* POST /api/insights/refresh answering with the fallback insights whatever
\* the model replied.
RefreshInsightsReplyFallback(r) ==
    /\ reqs[r].pc = "insights"
    /\ reqs[r].kind = "POST /api/insights/refresh"
    /\ \E reply \in JsonReplies :
        reqs' = [reqs EXCEPT ![r] =
            [@ EXCEPT !.pc = "done", !.status = 200, !.calls = @ + 1,
                      !.reply = reply,
                      !.resp = getFallbackInsights(reqs[r].snapshot)]]
    /\ UNCHANGED <<tasks, nextId, svc>>

\* POST /api/insights/refresh from the model's reply on
RefreshInsightsReply(r) ==
    /\ reqs[r].pc = "insights"
    /\ reqs[r].kind = "POST /api/insights/refresh"
    /\ \E reply \in JsonReplies, st \in UnhandledStatuses :
        reqs' = [reqs EXCEPT ![r] =
            JsonOrUnhandled([@ EXCEPT !.calls = @ + 1, !.reply = reply],
                            generateTaskInsights(reqs[r].snapshot, reply), st)]
    /\ UNCHANGED <<tasks, nextId, svc>>

\* The catch of GET /api/report
ReportFailed(req) ==
    [req EXCEPT !.pc = "done", !.status = 500,
                !.resp = Message("Failed to generate report")]

\* The end of GET /api/report: a report that is falsy is thrown on.
ReportEnd(req, outcome) ==
    IF outcome.threw \/ ~Truthy(outcome.val) THEN ReportFailed(req)
    ELSE [req EXCEPT !.pc = "done", !.status = 200, !.resp = outcome.val]

\* GET /api/report once generateTaskInsights has ended: generateReport up to
\* its await of this.model.invoke, or to its end.
ReportAfterInsights(req, outcome) ==
    IF outcome.threw THEN ReportFailed(req)
    ELSE LET got == [req EXCEPT !.insights = outcome.val]
         IN IF reportInvokes(req.snapshot)
            THEN [got EXCEPT !.pc = "reportReport"]
            ELSE ReportEnd(got, generateReport(req.snapshot, outcome.val,
                                               InvokeFailed))

\* GET /api/report with its empty-list check left out.
GetReportNoEmptyCheck(r) ==
    /\ Free(r)
    /\ \E user \in Sessions :
        LET req == Arrived("GET /api/report", user)
            ts == getTasksByUserId(tasks, user)
            read == [req EXCEPT !.reads = 1, !.snapshot = ts]
        IN reqs' = [reqs EXCEPT ![r] =
               IF ~isAuthenticated(req) THEN Unauthorized(req)
               ELSE IF insightsInvokes(ts)
               THEN [read EXCEPT !.pc = "reportInsights"]
               ELSE ReportAfterInsights(read,
                        generateTaskInsights(ts, InvokeFailed))]
    /\ UNCHANGED <<tasks, nextId, svc>>

\* GET /api/report up to the await of the insights call
GetReport(r) ==
    /\ Free(r)
    /\ \E user \in Sessions :
        LET req == Arrived("GET /api/report", user)
            ts == getTasksByUserId(tasks, user)
            read == [req EXCEPT !.reads = 1, !.snapshot = ts]
        IN reqs' = [reqs EXCEPT ![r] =
               IF ~isAuthenticated(req) THEN Unauthorized(req)
               ELSE IF Len(ts) = 0
               THEN [read EXCEPT !.pc = "done", !.status = 400,
                                 !.resp = Message("No tasks found. Please add some tasks before generating a report.")]
               ELSE IF insightsInvokes(ts)
               THEN [read EXCEPT !.pc = "reportInsights"]
               ELSE ReportAfterInsights(read,
                        generateTaskInsights(ts, InvokeFailed))]
    /\ UNCHANGED <<tasks, nextId, svc>>

\* GET /api/report from the reply to the insights prompt on
GetReportInsightsReply(r) ==
    /\ reqs[r].pc = "reportInsights"
    /\ \E reply \in JsonReplies :
        reqs' = [reqs EXCEPT ![r] =
            ReportAfterInsights([@ EXCEPT !.calls = @ + 1],
                generateTaskInsights(reqs[r].snapshot, reply))]
    /\ UNCHANGED <<tasks, nextId, svc>>

\* GET /api/report invoking the model again when the report call failed.
GetReportReplyRetrying(r) ==
    /\ reqs[r].pc = "reportReport"
    /\ \E reply \in JsonReplies :
        reqs' = [reqs EXCEPT ![r] =
            IF reply.failed /\ reqs[r].calls < 2
            THEN [@ EXCEPT !.calls = @ + 1]
            ELSE ReportEnd([@ EXCEPT !.calls = @ + 1],
                     generateReport(reqs[r].snapshot, reqs[r].insights, reply))]
    /\ UNCHANGED <<tasks, nextId, svc>>

\* GET /api/report reading the task list again for the report.
GetReportReplyRereading(r) ==
    /\ reqs[r].pc = "reportReport"
    /\ \E reply \in JsonReplies :
        reqs' = [reqs EXCEPT ![r] =
            ReportEnd([@ EXCEPT !.calls = @ + 1, !.reads = @ + 1],
                generateReport(getTasksByUserId(tasks, reqs[r].user),
                               reqs[r].insights, reply))]
    /\ UNCHANGED <<tasks, nextId, svc>>

\* GET /api/report from the reply to the report prompt on
GetReportReply(r) ==
    /\ reqs[r].pc = "reportReport"
    /\ \E reply \in JsonReplies :
        reqs' = [reqs EXCEPT ![r] =
            ReportEnd([@ EXCEPT !.calls = @ + 1],
                generateReport(reqs[r].snapshot, reqs[r].insights, reply))]
    /\ UNCHANGED <<tasks, nextId, svc>>

\* --------------------------------------- GroqService, invoked directly
\* The task lists a caller passes: up to MaxSvcTasks rows that differ in
\* their completion flag.

MaxSvcTasks == 3

SvcTaskLists ==
    {[i \in 1..Len(c) |->
         Row(i, "alice", "a", Null, "high", Null, c[i], DefaultTags)] :
        c \in SeqsUpTo(BOOLEAN, MaxSvcTasks)}

\* What the model can reply to the insight and report prompts: up to
\* MaxPieces pieces, each a fence, a backtick, a brace, prose, null, prose in
\* backticks, or a whole object.
Pieces ==
    {FenceOpen, FenceClose, <<Tick>>, <<"{">>, <<"}">>, <<"x">>, <<"null">>,
     <<Tick, "x", Tick>>}
        \cup {<<"{", m, "}">> : m \in MemberTokens}
JsonTexts == {Concat(ps) : ps \in SeqsUpTo(Pieces, MaxPieces)}
SvcJsonReplies == {InvokeFailed} \cup {InvokeText(s) : s \in JsonTexts}
\* Every such reply is given for a list of one task, the replies of the HTTP
\* specification for the longer lists.
SvcJsonRepliesFor(ts) == IF Len(ts) <= 1 THEN SvcJsonReplies ELSE JsonReplies

\* What the model can reply to the tag prompt.
TagAlphabet == {"a", ",", " ", "\n"}
SvcTagReplies ==
    {InvokeFailed} \cup {InvokeText(s) : s \in SeqsUpTo(TagAlphabet, MaxTagLen)}

SvcCall(op, ts, invokes, outcome) ==
    svc' = IF invokes
           THEN [SvcIdle EXCEPT !.pc = "awaiting", !.op = op, !.tasks = ts]
           ELSE [SvcIdle EXCEPT !.pc = "returned", !.op = op, !.tasks = ts,
                                !.result = outcome]

SvcReturn(reply, outcome) ==
    svc' = [svc EXCEPT !.pc = "returned", !.calls = @ + 1, !.reply = reply,
                       !.result = outcome]

CallInsights ==
    /\ svc.pc = "idle"
    /\ \E ts \in SvcTaskLists :
        SvcCall("generateTaskInsights", ts, insightsInvokes(ts),
                generateTaskInsights(ts, InvokeFailed))
    /\ UNCHANGED <<tasks, nextId, reqs>>

InsightsReply ==
    /\ svc.pc = "awaiting" /\ svc.op = "generateTaskInsights"
    /\ \E reply \in SvcJsonRepliesFor(svc.tasks) :
        SvcReturn(reply, generateTaskInsights(svc.tasks, reply))
    /\ UNCHANGED <<tasks, nextId, reqs>>

CallReport ==
    /\ svc.pc = "idle"
    /\ \E ts \in SvcTaskLists :
        SvcCall("generateReport", ts, reportInvokes(ts),
                generateReport(ts, getFallbackInsights(ts), InvokeFailed))
    /\ UNCHANGED <<tasks, nextId, reqs>>

ReportReply ==
    /\ svc.pc = "awaiting" /\ svc.op = "generateReport"
    /\ \E reply \in SvcJsonRepliesFor(svc.tasks) :
        SvcReturn(reply, generateReport(svc.tasks,
                                        getFallbackInsights(svc.tasks), reply))
    /\ UNCHANGED <<tasks, nextId, reqs>>

CallTags ==
    /\ svc.pc = "idle"
    /\ svc' = [SvcIdle EXCEPT !.pc = "awaiting", !.op = "generateTaskTags"]
    /\ UNCHANGED <<tasks, nextId, reqs>>

TagsReply ==
    /\ svc.pc = "awaiting" /\ svc.op = "generateTaskTags"
    /\ \E reply \in SvcTagReplies :
        SvcReturn(reply, generateTaskTags("a", "", reply))
    /\ UNCHANGED <<tasks, nextId, reqs>>

NextSvc ==
    \/ CallInsights
    \/ InsightsReply
    \/ CallReport
    \/ ReportReply
    \/ CallTags
    \/ TagsReply

SpecSvc == Init /\ [][NextSvc]_vars

Next ==
    \E r \in Reqs :
        \/ GetTasks(r)
        \/ PostTask(r)
        \/ PostTaskTags(r)
        \/ PatchTask(r)
        \/ DeleteTask(r)
        \/ GetInsights(r)
        \/ GetInsightsReply(r)
        \/ RefreshInsights(r)
        \/ RefreshInsightsReply(r)
        \/ GetReport(r)
        \/ GetReportInsightsReply(r)
        \/ GetReportReply(r)

Spec == Init /\ [][Next]_vars

\* The service reached through the routes, or invoked directly.
NextAll ==
    \/ /\ svc = SvcIdle
       /\ Next
    \/ /\ reqs = [r \in Reqs |-> Idle]
       /\ NextSvc

SpecAll == Init /\ [][NextAll]_vars

\* ------------------------------------------- two requests in flight
\* A GET /api/report of alice in slot r1, and in slot r2 the requests of a
\* user with a session that write: POST (the first valid body; the tag call
\* fails), PATCH and DELETE.
\* A handler runs to its next await; the other slot may step in between.

ConcReqs == {"r1", "r2"}

InitConc ==
    /\ tasks = <<>>
    /\ nextId = 1
    /\ reqs = [r \in ConcReqs |-> Idle]
    /\ svc = SvcIdle

NextConc ==
    \/ GetReport("r1") /\ reqs'["r1"].user = "alice"
    \/ GetReportInsightsReply("r1")
    \/ GetReportReply("r1")
    \/ /\ PostTask("r2")
       /\ reqs'["r2"].user \in Users
       /\ reqs'["r2"].body = [title |-> Str("a"), priority |-> Str("high")]
    \/ PostTaskTags("r2") /\ reqs'["r2"].reply = InvokeFailed
    \/ PatchTask("r2") /\ reqs'["r2"].user \in Users
    \/ DeleteTask("r2") /\ reqs'["r2"].user \in Users

SpecConc == InitConc /\ [][NextConc]_vars

\* ------------------------------------------------------------------ claims

Rows(store) == {store[i] : i \in 1..Len(store)}
ReturnedRows(resp) ==
    IF resp.t = "rows" THEN Rows(resp.rows)
    ELSE IF resp.t = "row" THEN {resp.row}
    ELSE {}

\* Slot r takes a step of its handler.
Steps(r) == reqs'[r] # reqs[r]

\* C1: whatever GET /api/tasks, PATCH /api/tasks/:id or DELETE /api/tasks/:id
\* request a user with a session makes, every task of another owner is still
\* in the store afterwards with every field unchanged, and is not in the
\* response.
C1_CrossUserIsolation ==
    [][\A r \in Reqs :
          (/\ Steps(r)
           /\ reqs'[r].kind \in {"GET /api/tasks", "PATCH /api/tasks/:id",
                                 "DELETE /api/tasks/:id"}
           /\ reqs'[r].user \in Users)
          => \A t \in Rows(tasks) :
                 t.userId # reqs'[r].user
                 => /\ t \in Rows(tasks')
                    /\ \A x \in ReturnedRows(reqs'[r].resp) : x.id # t.id]_vars

\* C2: a step taken for a request with no valid session, on any of the seven
\* task and AI endpoints, ends the handler with status 401 and no payload,
\* makes no storage read, no storage write and no model call, and leaves the
\* store as it was.
C2_NoSessionIs401 ==
    [][\A r \in Reqs :
          (Steps(r) /\ reqs'[r].user = Anonymous)
          => /\ reqs'[r].pc = "done"
             /\ reqs'[r].status = 401
             /\ reqs'[r].resp = NoResp
             /\ reqs'[r].reads = 0 /\ reqs'[r].writes = 0 /\ reqs'[r].calls = 0
             /\ tasks' = tasks /\ nextId' = nextId]_vars

\* A DELETE of a stored task, sent with no session, was answered 401 and the
\* task is still there.
C2_Witness ==
    \E r \in Reqs :
        /\ reqs[r].pc = "done" /\ reqs[r].user = Anonymous
        /\ reqs[r].kind = "DELETE /api/tasks/:id"
        /\ reqs[r].status = 401
        /\ Exists(tasks, reqs[r].id)

\* The structural contract of TaskInsights and of TaskReport.
IsTaskInsights(v) ==
    /\ v.t = "obj"
    /\ {"taskGroups", "recommendations", "completionRate"} \subseteq DOMAIN v.o
    /\ v.o.taskGroups.t = "arr"
    /\ \A i \in 1..Len(v.o.taskGroups.a) :
           LET g == v.o.taskGroups.a[i]
           IN /\ g.t = "obj"
              /\ {"name", "tasks"} \subseteq DOMAIN g.o
              /\ g.o.name.t = "str"
              /\ g.o.tasks.t = "arr"
    /\ v.o.recommendations.t = "arr"
    /\ v.o.completionRate.t = "str"

IsTaskReport(v) ==
    /\ v.t = "obj"
    /\ {"executiveSummary", "taskAnalysis", "productivityMetrics",
        "workStyleAnalysis", "recommendations"} \subseteq DOMAIN v.o
    /\ v.o.executiveSummary.t = "obj"
    /\ {"summary", "metrics"} \subseteq DOMAIN v.o.executiveSummary.o
    /\ v.o.executiveSummary.o.summary.t = "str"
    /\ v.o.executiveSummary.o.metrics.t = "arr"
    /\ v.o.taskAnalysis.t = "str"
    /\ v.o.productivityMetrics.t = "str"
    /\ v.o.workStyleAnalysis.t = "str"
    /\ v.o.recommendations.t = "arr"

InsightKinds == {"GET /api/insights", "POST /api/insights/refresh"}

\* C3: for a non-empty task list, whatever the model call did (threw, or
\* replied any text), generateTaskInsights and generateReport return, without
\* throwing, an object of the structural contract; and the insight and report
\* endpoints answer 200 with such an object whenever the caller has tasks.
C3_AIFailuresAbsorbed ==
    /\ (svc.pc = "returned" /\ svc.tasks # <<>>
            /\ svc.op = "generateTaskInsights")
       => ~svc.result.threw /\ IsTaskInsights(svc.result.val)
    /\ (svc.pc = "returned" /\ svc.tasks # <<>> /\ svc.op = "generateReport")
       => ~svc.result.threw /\ IsTaskReport(svc.result.val)
    /\ \A r \in Reqs :
           (reqs[r].pc = "done" /\ reqs[r].user \in Users
                /\ reqs[r].snapshot # <<>>)
           => /\ reqs[r].kind \in InsightKinds
                 => reqs[r].status = 200 /\ IsTaskInsights(reqs[r].resp)
              /\ reqs[r].kind = "GET /api/report"
                 => reqs[r].status = 200 /\ IsTaskReport(reqs[r].resp)

\* The model call of generateTaskInsights, made for two tasks, failed or its
\* reply was unusable, and the fallback computed from the tasks came back.
C3_Witness ==
    /\ svc.pc = "returned" /\ svc.op = "generateTaskInsights"
    /\ Len(svc.tasks) = 2 /\ svc.calls = 1
    /\ svc.result = Returned(getFallbackInsights(svc.tasks))

\* C4: for the empty task list, generateTaskInsights and generateReport return
\* their fallback (insights: no groups, completionRate "0%"; report: Total
\* Tasks 0 and Completion Rate 0% among the metrics) and never reach the
\* model call.
C4_EmptyTaskListNoCall ==
    (svc.tasks = <<>> /\ svc.op \in {"generateTaskInsights", "generateReport"})
    => /\ svc.pc = "returned" /\ svc.calls = 0 /\ ~svc.result.threw
       /\ svc.op = "generateTaskInsights"
          => /\ IsTaskInsights(svc.result.val)
             /\ svc.result.val.o.taskGroups = Arr(<<>>)
             /\ svc.result.val.o.completionRate = Str("0%")
       /\ svc.op = "generateReport"
          => /\ IsTaskReport(svc.result.val)
             /\ LET metrics == svc.result.val.o.executiveSummary.o.metrics.a
                IN /\ \E i \in 1..Len(metrics) :
                          metrics[i] = Str("Total Tasks: 0")
                   /\ \E i \in 1..Len(metrics) :
                          metrics[i] = Str("Completion Rate: 0%")

\* generateReport was invoked with the empty task list and has returned.
C4_Witness ==
    svc.pc = "returned" /\ svc.op = "generateReport" /\ svc.tasks = <<>>

\* C5: every row that enters the store (POST /api/tasks is what creates rows)
\* carries at most 3 tags, and generateTaskTags returns at most 3 tags,
\* whatever text the model replied and when the call failed.
C5_PersistedTagsAtMostThree ==
    [][/\ \A t \in Rows(tasks') :
             (\A u \in Rows(tasks) : u.id # t.id) => Len(t.aiTags) <= 3
       /\ \A r \in Reqs :
             (Steps(r) /\ reqs'[r].kind = "POST /api/tasks"
                  /\ reqs'[r].status = 201)
             => /\ reqs'[r].resp.t = "row"
                /\ reqs'[r].resp.row \in Rows(tasks')
                /\ Len(reqs'[r].resp.row.aiTags) <= 3
       /\ (svc'.pc = "returned" /\ svc'.op = "generateTaskTags")
          => ~svc'.result.threw /\ Len(svc'.result.val) <= 3]_vars

\* A POST was answered 201 with a stored row of exactly 3 tags: the reply that
\* named four was cut.
C5_Witness ==
    \E r \in Reqs :
        /\ reqs[r].pc = "done" /\ reqs[r].kind = "POST /api/tasks"
        /\ reqs[r].status = 201
        /\ reqs[r].resp.row \in Rows(tasks)
        /\ Len(reqs[r].resp.row.aiTags) = 3

\* C6: a POST /api/tasks with a session and a malformed body is answered with
\* a 4xx status and a payload naming the fields; no row is written and the
\* model is not called.
C6_MalformedPostIs4xx ==
    \A r \in Reqs :
        (reqs[r].kind = "POST /api/tasks" /\ reqs[r].user \in Users
             /\ reqs[r].body \in MalformedPostBodies)
        => /\ reqs[r].pc = "done"
           /\ reqs[r].status \in 400..499
           /\ reqs[r].resp # NoResp
           /\ reqs[r].writes = 0 /\ reqs[r].calls = 0

\* C7: a PATCH /api/tasks/:id with a session, for an id no stored row has, is
\* answered 404 and leaves the store and the serial as they were.
C7_PatchUnknownIdIs404 ==
    [][\A r \in Reqs :
          (/\ Steps(r)
           /\ reqs'[r].kind = "PATCH /api/tasks/:id"
           /\ reqs'[r].user \in Users
           /\ \A t \in Rows(tasks) : t.id # reqs'[r].id)
          => /\ reqs'[r].pc = "done"
             /\ reqs'[r].status = 404
             /\ tasks' = tasks /\ nextId' = nextId]_vars

\* A PATCH for an id that is not stored, while another row is, has been
\* answered 404.
C7_Witness ==
    \E r \in Reqs :
        /\ reqs[r].pc = "done" /\ reqs[r].kind = "PATCH /api/tasks/:id"
        /\ reqs[r].user \in Users /\ reqs[r].status = 404
        /\ tasks # <<>> /\ ~Exists(tasks, reqs[r].id)

NoTasksMessage ==
    Message("No tasks found. Please add some tasks before generating a report.")

\* C8: a GET /api/report with a session whose task list came back empty is
\* answered 400 with the no-tasks message, with no model call and no insights
\* computed; one whose list is not empty is never answered 400.
C8_ReportOfNoTasksIs400 ==
    \A r \in Reqs :
        (reqs[r].kind = "GET /api/report" /\ reqs[r].user \in Users)
        => /\ reqs[r].snapshot = <<>>
              => /\ reqs[r].pc = "done"
                 /\ reqs[r].status = 400
                 /\ reqs[r].resp = NoTasksMessage
                 /\ reqs[r].calls = 0
                 /\ reqs[r].insights = Undefined
           /\ reqs[r].snapshot # <<>> => reqs[r].status # 400

\* A user with no task asked for the report, while another user has one, and
\* was answered 400.
C8_Witness ==
    \E r \in Reqs :
        /\ reqs[r].pc = "done" /\ reqs[r].kind = "GET /api/report"
        /\ reqs[r].user \in Users /\ reqs[r].status = 400
        /\ tasks # <<>>

\* C9: when a POST /api/tasks of a user was answered 201 and the next request
\* is that user's GET /api/tasks, the list returned holds the created task
\* with the title, the priority and the description that were submitted (null
\* for a body with no description) and with that user as owner.
C9_CreateThenListRoundTrip ==
    [][\A r \in Reqs :
          (/\ reqs[r].pc = "done" /\ reqs[r].kind = "POST /api/tasks"
           /\ reqs[r].status = 201
           /\ Steps(r) /\ reqs'[r].kind = "GET /api/tasks"
           /\ reqs'[r].user = reqs[r].user)
          => /\ reqs'[r].status = 200
             /\ \E x \in ReturnedRows(reqs'[r].resp) :
                   /\ x.id = reqs[r].resp.row.id
                   /\ x.userId = reqs[r].user
                   /\ x.title = reqs[r].body.title.s
                   /\ x.priority = reqs[r].body.priority.s
                   /\ x.description =
                          (IF "description" \in DOMAIN reqs[r].body
                           THEN reqs[r].body.description ELSE Null)]_vars

\* A user's second task, created with a description, is in the list of two
\* tasks that the user's GET /api/tasks returned.
C9_Witness ==
    \E r \in Reqs :
        /\ reqs[r].pc = "done" /\ reqs[r].kind = "GET /api/tasks"
        /\ reqs[r].status = 200
        /\ Len(reqs[r].resp.rows) = 2
        /\ reqs[r].resp.rows[2].description = Str("d")
        /\ reqs[r].resp.rows[1].description = Null

\* C10: a DELETE /api/tasks/:id with a session is answered 204 whether or not
\* a row has that id, and no row has it afterwards; when the request before it
\* was a DELETE of the same id, answered 204, the store is left as it was.
C10_DeleteIdempotent ==
    [][\A r \in Reqs :
          (/\ Steps(r)
           /\ reqs'[r].kind = "DELETE /api/tasks/:id"
           /\ reqs'[r].user \in Users)
          => /\ reqs'[r].pc = "done"
             /\ reqs'[r].status = 204
             /\ \A t \in Rows(tasks') : t.id # reqs'[r].id
             /\ \A t \in Rows(tasks) : t.id # reqs'[r].id => t \in Rows(tasks')
             /\ (/\ reqs[r].pc = "done"
                 /\ reqs[r].kind = "DELETE /api/tasks/:id"
                 /\ reqs[r].status = 204
                 /\ reqs[r].id = reqs'[r].id)
                => tasks' = tasks]_vars

\* A DELETE for an id that no row has, with another row stored, has been
\* answered 204.
C10_Witness ==
    \E r \in Reqs :
        /\ reqs[r].pc = "done" /\ reqs[r].kind = "DELETE /api/tasks/:id"
        /\ reqs[r].user \in Users /\ reqs[r].status = 204
        /\ tasks # <<>> /\ reqs[r].id >= nextId

\* The tasks of ts with a true completion flag.
Completed(ts) == {i \in 1..Len(ts) : ts[i].completed}

\* r is 100 * c / n rounded to the nearest integer, a half going up.
IsRounded(r, c, n) == 200 * c - n < 2 * n * r /\ 2 * n * r <= 200 * c + n

C12_ErrorsReachClient ==
    \A r \in Reqs :
        (reqs[r].pc = "done" /\ reqs[r].user \in Users)
        => /\ reqs[r].status # 0
           /\ (reqs[r].kind = "POST /api/tasks"
                   /\ insertTaskSchemaParse(reqs[r].body).threw)
              => reqs[r].status \in 400..599
           /\ (reqs[r].kind = "GET /api/report" /\ reqs[r].status = 500)
              => reqs[r].resp = Message("Failed to generate report")

\* The insights generateTaskInsights can return for the task list ts.
InsightsOf(ts) ==
    {generateTaskInsights(ts, reply).val : reply \in JsonReplies}

\* C13: a GroqService method invokes the model at most once and returns on
\* the reply, failed or not; a handler other than GET /api/report invokes it
\* at most once; GET /api/report invokes it for the insights first, then,
\* holding insights that generateTaskInsights returned for its task list, for
\* the report, and ends on that reply: two calls, never a third.
C13_OneCallPerOperation ==
    [][/\ svc'.calls <= 1
       /\ svc.pc = "awaiting" => svc'.pc = "returned" /\ svc'.calls = 1
       /\ \A r \in Reqs :
             LET req == reqs'[r]
             IN /\ req.kind # "GET /api/report" => req.calls <= 1
                /\ req.pc \in {"tags", "insights"} => req.calls = 0
                /\ (Steps(r) /\ reqs[r].pc \in {"tags", "insights"})
                   => req.pc = "done" /\ req.calls = 1
                /\ req.kind = "GET /api/report"
                   => /\ req.calls <= 2
                      /\ req.pc = "reportInsights"
                         => req.calls = 0 /\ req.insights = Undefined
                      /\ req.pc = "reportReport"
                         => /\ req.calls = 1
                            /\ req.insights \in InsightsOf(req.snapshot)
                      /\ (Steps(r) /\ req.pc = "reportReport")
                         => reqs[r].pc = "reportInsights"
                      /\ (Steps(r) /\ reqs[r].pc = "reportReport")
                         => /\ req.pc = "done" /\ req.calls = 2
                            /\ req.insights = reqs[r].insights]_vars

\* A GET /api/report has ended with 200 after its two calls.
C13_Witness ==
    \E r \in Reqs :
        /\ reqs[r].pc = "done" /\ reqs[r].kind = "GET /api/report"
        /\ reqs[r].status = 200 /\ reqs[r].calls = 2
        /\ reqs[r].insights \in InsightsOf(reqs[r].snapshot)

\* C14: GET /api/insights and POST /api/insights/refresh are the same
\* function of the session, the stored tasks and what the model did: either
\* one reads the user's tasks once, writes nothing, invokes the model once
\* when there are tasks and not at all when there are none, and answers 200
\* with what generateTaskInsights returns for these tasks and that reply; no
\* step of either changes the store.
C14_RefreshIsInsights ==
    [][\A r \in Reqs :
          (Steps(r) /\ reqs'[r].kind \in InsightKinds
               /\ reqs'[r].user \in Users)
          => LET req == reqs'[r]
                 ts == getTasksByUserId(tasks, req.user)
             IN /\ tasks' = tasks /\ nextId' = nextId
                /\ req.reads = 1 /\ req.writes = 0
                /\ req.snapshot = ts
                /\ req.pc \in {"insights", "done"}
                /\ req.pc = "insights" => ts # <<>> /\ req.calls = 0
                /\ req.pc = "done"
                   => /\ req.calls = (IF ts = <<>> THEN 0 ELSE 1)
                      /\ req.status = 200
                      /\ req.resp = generateTaskInsights(ts, req.reply).val]_vars

\* POST /api/insights/refresh has answered with the insights the model gave.
C14_Witness ==
    \E r \in Reqs :
        /\ reqs[r].pc = "done" /\ reqs[r].kind = "POST /api/insights/refresh"
        /\ reqs[r].status = 200 /\ reqs[r].calls = 1
        /\ reqs[r].reply = InvokeText(<<"{", "ins", "}">>)
        /\ reqs[r].resp = Obj(Members.ins)

\* The comma-separated pieces of a text c, by position: piece k lies between
\* the (k-1)-th and the k-th comma, the ends of the text counting as commas.
Cuts(c) == {0, Len(c) + 1} \cup {i \in 1..Len(c) : c[i] = ","}
Cut(c, k) == CHOOSE i \in Cuts(c) : Cardinality({j \in Cuts(c) : j < i}) = k
PieceAt(c, k) == SubSeq(c, Cut(c, k - 1) + 1, Cut(c, k) - 1)
\* p with the whitespace at its two ends removed.
Trimmed(p) ==
    LET solid == {i \in 1..Len(p) : p[i] \notin Whitespace}
    IN IF solid = {} THEN <<>> ELSE SubSeq(p, Min(solid), Max(solid))
\* The pieces that survive: not empty once trimmed, and holding no newline.
Surviving(c) ==
    {k \in 1..(Cardinality(Cuts(c)) - 1) :
        LET t == Trimmed(PieceAt(c, k))
        IN t # <<>> /\ \A i \in 1..Len(t) : t[i] # "\n"}
\* The i-th surviving piece, trimmed.
SurvivorAt(c, i) ==
    LET k == CHOOSE k \in Surviving(c) :
                 Cardinality({j \in Surviving(c) : j < k}) = i - 1
    IN Trimmed(PieceAt(c, k))

\* C15: generateTaskTags returns, without throwing, the first three of the
\* comma-separated pieces of the reply that are not empty once trimmed and
\* hold no newline, each trimmed, in their order; when the call failed or no
\* piece survives it returns the list of the one tag "task"; it never returns
\* the empty list.
C15_TagsOfReply ==
    (svc.pc = "returned" /\ svc.op = "generateTaskTags")
    => LET tags == svc.result.val
           c == svc.reply.content
       IN /\ ~svc.result.threw
          /\ svc.calls = 1
          /\ Len(tags) \in 1..3
          /\ (svc.reply.failed \/ Surviving(c) = {})
             => tags = <<(<<"task">>)>>
          /\ (~svc.reply.failed /\ Surviving(c) # {})
             => /\ Len(tags) = Min({3, Cardinality(Surviving(c))})
                /\ \A i \in 1..Len(tags) : tags[i] = SurvivorAt(c, i)

\* Of the reply "a\na, ,a" the first piece holds a newline and the second is
\* blank: the one tag is the third piece.
C15_Witness ==
    /\ svc.pc = "returned" /\ svc.op = "generateTaskTags"
    /\ svc.reply = InvokeText(<<"a", "\n", "a", ",", " ", ",", "a">>)
    /\ svc.result.val = <<(<<"a">>)>>

\* Where a pattern can match in a text c: <<i, j>>, the position of its
\* opening and of its closing delimiter.
FenceSpans(c) ==
    {<<i, j>> \in Occ(c, FenceOpen) \X Occ(c, FenceClose) :
        j >= i + Len(FenceOpen)}
TickSpans(c) ==
    {<<i, j>> \in (1..Len(c)) \X (1..Len(c)) :
        i < j /\ c[i] = Tick /\ c[j] = Tick}
BraceSpans(c) ==
    {<<i, j>> \in (1..Len(c)) \X (1..Len(c)) :
        i < j /\ c[i] = "{" /\ c[j] = "}"}
\* The leftmost span, the shortest (lazy) or the longest (greedy) from there.
Lazy(S) ==
    CHOOSE p \in S : \A q \in S : p[1] < q[1] \/ (p[1] = q[1] /\ p[2] <= q[2])
Greedy(S) ==
    CHOOSE p \in S : \A q \in S : p[1] < q[1] \/ (p[1] = q[1] /\ p[2] >= q[2])
\* The captured text, or the whole match when nothing was captured.
GroupOrWhole(group, whole) == IF group # <<>> THEN group ELSE whole

\* The one candidate text of c, of the first pattern that matches.
HasCandidate(c) ==
    FenceSpans(c) # {} \/ TickSpans(c) # {} \/ BraceSpans(c) # {}
Candidate(c) ==
    IF FenceSpans(c) # {}
    THEN LET p == Lazy(FenceSpans(c))
         IN GroupOrWhole(SubSeq(c, p[1] + Len(FenceOpen), p[2] - 1),
                         SubSeq(c, p[1], p[2] + Len(FenceClose) - 1))
    ELSE IF TickSpans(c) # {}
    THEN LET p == Lazy(TickSpans(c))
         IN GroupOrWhole(SubSeq(c, p[1] + 1, p[2] - 1), SubSeq(c, p[1], p[2]))
    ELSE LET p == Greedy(BraceSpans(c))
         IN SubSeq(c, p[1], p[2])

\* C16: when the model replied a text, generateTaskInsights and
\* generateReport take one candidate from it, that of the fenced json block
\* if the text has one, else that of the first backtick span if it has one,
\* else the text from the first opening to the last closing brace; the
\* candidate is the captured text, or the whole match when nothing was
\* captured.  They return the parsed candidate when it parses and validates,
\* and otherwise the fallback of the task list, whatever a pattern of lower
\* priority would have given.
C16_FirstMatchingPatternOnly ==
    (svc.pc = "returned" /\ svc.calls = 1 /\ ~svc.reply.failed
        /\ svc.op \in {"generateTaskInsights", "generateReport"})
    => LET c == svc.reply.content
           parsed == JSONparse(Candidate(c))
           usable == /\ HasCandidate(c)
                     /\ ~parsed.threw
                     /\ IF svc.op = "generateTaskInsights"
                        THEN validateInsightsStructure(parsed.val) = "true"
                        ELSE validateReportStructure(parsed.val) = "true"
       IN svc.result =
              Returned(IF usable THEN parsed.val
                       ELSE IF svc.op = "generateTaskInsights"
                            THEN getFallbackInsights(svc.tasks)
                            ELSE getFallbackReport(svc.tasks))

\* The reply holds prose in backticks and, after it, well-formed insights in
\* braces: the fallback came back.
C16_Witness ==
    /\ svc.pc = "returned" /\ svc.op = "generateTaskInsights"
    /\ svc.reply = InvokeText(<<Tick, "x", Tick, "{", "ins", "}">>)
    /\ svc.result = Returned(getFallbackInsights(svc.tasks))

\* C17: a POST /api/tasks with a session and a valid body first validates
\* the body and awaits tag generation, having written nothing and answered
\* nothing; on the model's reply, failed or not, it appends one row, carrying
\* the tags generateTaskTags returned for that reply (the one tag "task" when
\* the call failed), and answers 201 with that row; it writes once.
C17_PostStepOrder ==
    [][\A r \in Reqs :
          (Steps(r) /\ reqs'[r].kind = "POST /api/tasks"
               /\ reqs'[r].user \in Users
               /\ ~insertTaskSchemaParse(reqs'[r].body).threw)
          => LET req == reqs'[r]
             IN /\ reqs[r].pc # "tags"
                   => /\ req.pc = "tags"
                      /\ req.data = insertTaskSchemaParse(req.body).val
                      /\ req.calls = 0 /\ req.writes = 0
                      /\ req.status = 0 /\ req.resp = NoResp
                      /\ tasks' = tasks /\ nextId' = nextId
                /\ reqs[r].pc = "tags"
                   => /\ req.pc = "done"
                      /\ req.calls = 1 /\ req.writes = 1
                      /\ req.status = 201
                      /\ Len(tasks') = Len(tasks) + 1
                      /\ SubSeq(tasks', 1, Len(tasks)) = tasks
                      /\ req.resp = RowResp(tasks'[Len(tasks')])
                      /\ req.resp.row.aiTags
                             = generateTaskTags(req.data.title, "", req.reply).val
                      /\ req.reply.failed
                         => req.resp.row.aiTags = <<(<<"task">>)>>]_vars

\* The tag call of a POST failed and the task is stored with the tag "task".
C17_Witness ==
    \E r \in Reqs :
        /\ reqs[r].pc = "done" /\ reqs[r].kind = "POST /api/tasks"
        /\ reqs[r].status = 201 /\ reqs[r].reply.failed
        /\ reqs[r].resp.row \in Rows(tasks)
        /\ reqs[r].resp.row.aiTags = <<(<<"task">>)>>

\* What a body says of the four fields of the insert schema.
SchemaFields == {"title", "description", "priority", "dueDate"}
Picked(body) == [k \in DOMAIN body \cap SchemaFields |-> body[k]]

\* The row written for the picked fields of a body, a session user, the
\* model's reply to the tag prompt and the serial.
WrittenRow(picked, user, reply, id) ==
    Row(id, user, picked.title.s,
        IF "description" \in DOMAIN picked THEN picked.description ELSE Null,
        picked.priority.s,
        IF "dueDate" \in DOMAIN picked /\ picked.dueDate.t = "str"
        THEN [t |-> "date", s |-> picked.dueDate.s] ELSE Null,
        FALSE, generateTaskTags(picked.title.s, "", reply).val)

\* C19: the row a POST /api/tasks writes is a function of the title,
\* description, priority and dueDate of the body, the session user, the
\* model's reply and the serial alone: its owner is the session user, and an
\* id, userId, completed or aiTags field of the body changes nothing of it.
C19_RowIgnoresOtherBodyFields ==
    [][\A r \in Reqs :
          (Steps(r) /\ reqs[r].pc = "tags")
          => LET req == reqs'[r]
                 row == tasks'[Len(tasks')]
             IN /\ Len(tasks') = Len(tasks) + 1
                /\ row = WrittenRow(Picked(req.body), req.user, req.reply,
                                    nextId)
                /\ row.userId = req.user
                /\ req.resp = RowResp(row)]_vars

\* alice's second task was posted with id 1, userId bob, completed true and
\* four aiTags in the body: the row has id 2, owner alice, is not completed
\* and carries the tags of tag generation.
C19_Witness ==
    \E r \in Reqs :
        /\ reqs[r].pc = "done" /\ reqs[r].kind = "POST /api/tasks"
        /\ reqs[r].status = 201 /\ reqs[r].user = "alice"
        /\ "userId" \in DOMAIN reqs[r].body
        /\ reqs[r].body.userId = Str("bob")
        /\ reqs[r].resp.row \in Rows(tasks)
        /\ reqs[r].resp.row.id = 2
        /\ reqs[r].resp.row.userId = "alice"
        /\ reqs[r].resp.row.completed = FALSE
        /\ reqs[r].resp.row.aiTags = <<(<<"task">>)>>

\* The reports generateReport can return for the task list ts.
ReportsOf(ts, insights) ==
    {generateReport(ts, insights, reply).val : reply \in JsonReplies}

\* C18: a GET /api/report reads the task list once; while it awaits the
\* model, whatever the other request creates, updates or deletes, its
\* snapshot stays as read; the insights it holds are insights of the
\* snapshot and the report it answers with 200 is a report of the snapshot;
\* a step of the other request changes nothing of it.
C18_ReportFromOneSnapshot ==
    [][LET old == reqs["r1"]
           req == reqs'["r1"]
       IN /\ req.kind = "GET /api/report" => req.reads = 1
          /\ old.pc \in {"reportInsights", "reportReport"}
             => req.snapshot = old.snapshot
          /\ old.pc = "reportReport" => req.insights = old.insights
          /\ req.pc = "reportReport"
             => req.insights \in InsightsOf(req.snapshot)
          /\ (req.pc = "done" /\ req.status = 200)
             => /\ req.insights \in InsightsOf(req.snapshot)
                /\ req.resp \in ReportsOf(req.snapshot, req.insights)
          /\ reqs'["r2"] # reqs["r2"] => req = old]_vars

\* The report read one task; a second was created and the first deleted
\* while it awaited the model; it answered with the fallback report of the
\* one task it had read.
C18_Witness ==
    /\ reqs["r1"].pc = "done" /\ reqs["r1"].status = 200
    /\ Len(reqs["r1"].snapshot) = 1
    /\ Len(tasks) = 1 /\ tasks[1].id = 2
    /\ reqs["r1"].snapshot[1].id = 1
    /\ reqs["r1"].resp = getFallbackReport(reqs["r1"].snapshot)

====
